---- MODULE Spec2Model ----
(***************************************************************************)
(* Hybrid support-query classification: rule engine, LLM fallback adapter  *)
(* with retry/backoff, the orchestrator that arbitrates between them, and  *)
(* the router that turns a classification result into a routing decision.  *)
(*                                                                         *)
(* Numbers.  A confidence or score x in [0,1] is the integer x * Scale     *)
(* with Scale = 6000, the least unit in which every match_ratio * weight   *)
(* of the rule table (group sizes 3,4,5,6, weights in 1/100) and every     *)
(* value with three decimals is an integer.  Time is in whole ticks.       *)
(*                                                                         *)
(* Text.  A query is a non-empty set of fragments, written in the text     *)
(* separated by ", ".  Occurs[f] lists the rule-table terms that are       *)
(* substrings of the preprocessed fragment f, which is what                *)
(* `pk in keywords or pk in text` tests; RawOccurs[f] lists the trigger    *)
(* keywords that are substrings of the lowercased raw fragment, which is   *)
(* what `kw in query_lower` tests.                                         *)
(***************************************************************************)
EXTENDS Integers, Sequences, FiniteSets, TLC

\* ------------------------------------------------------------------ bounds
MaxWords == 2
MaxRetries == 3

\* --------------------------------------------------------------- constants
Scale == 6000
\* Python's None, for a result and for the optional fields of one
Null == [none |-> TRUE]
NoTokens == 0 - 1
NoScores == [c \in {} |-> 0]

\* models.py SupportCategory
BILLING == "Billing & Payments"
TECHNICAL == "Technical Issues"
ACCOUNT == "Account Management"
PRODUCT == "Product Questions"
FEATURE == "Feature Requests"
BUG == "Bug Reports"
GENERAL == "General Inquiry"

SupportCategory == {BILLING, TECHNICAL, ACCOUNT, PRODUCT, FEATURE, BUG, GENERAL}

\* models.py ClassificationMethod
RULE_BASED == "rule-based"
LLM_FALLBACK == "llm-fallback"
HYBRID == "hybrid"

ClassificationMethod == {RULE_BASED, LLM_FALLBACK, HYBRID}

\* ClassificationResult.reasoning Field(min_length=1, max_length=500)
ReasoningMinLen == 1
ReasoningMaxLen == 500

\* ---------------------------------------------------------------- rounding
\* round(v, 2) on the doubles k/200 (the values exactly half way between two
\* hundredths): the hundredth Python picks depends on the binary expansion of
\* the double.  TieUp holds the numerators k (odd, v = k/200) rounded upward.
TieUp ==
  { 1, 5, 7, 11, 13, 17, 19, 23, 27, 33, 39, 45, 51, 53, 55, 63, 65, 67, 75,
    77, 79, 81, 89, 91, 93, 101, 103, 105, 107, 109, 111, 127, 129, 131, 133,
    135, 137, 151, 153, 155, 157, 159, 161, 175, 177, 179, 181, 183, 185, 187 }

\* ClassificationResult.round_confidence: round(v, 2), v given in 1/Scale.
\* The result is a multiple of Scale/100.
round_confidence(v) ==
  LET lo == (v \div 60) * 60
      r  == v - lo
  IN  IF r < 30 THEN lo
      ELSE IF r > 30 THEN lo + 60
      ELSE IF ((v \div 30) \in TieUp) THEN lo + 60 ELSE lo

\* ------------------------------------------------------- rule engine tables
\* rule_classifier.py CATEGORY_PATTERNS: category -> list of (terms, weight),
\* weight in 1/100.  The dict has no entry for PRODUCT.
Group(terms, weight) == [terms |-> terms, weight |-> weight]

CATEGORY_PATTERNS ==
  [c \in {BILLING, TECHNICAL, ACCOUNT, FEATURE, BUG, GENERAL} |->
    CASE c = BILLING -> <<
           Group({"refund", "charged", "charge", "payment", "bill", "invoice"}, 90),
           Group({"money", "paid", "cost", "price", "fee", "dollars"}, 80),
           Group({"subscription", "cancel", "upgrade", "downgrade"}, 85),
           Group({"credit card", "debit card", "payment method"}, 90),
           Group({"money back", "refund", "charged twice", "double charged"}, 95),
           Group({"overcharged", "unauthorized", "incorrect charge"}, 95),
           Group({"receipt", "transaction", "purchase"}, 75) >>
      [] c = TECHNICAL -> <<
           Group({"error", "bug", "crash", "broken", "not working"}, 90),
           Group({"loading", "slow", "timeout", "connection"}, 80),
           Group({"feature", "function", "button", "click"}, 75),
           Group({"browser", "app", "mobile", "desktop"}, 70),
           Group({"update", "version", "install"}, 75) >>
      [] c = ACCOUNT -> <<
           Group({"forgot password", "reset password", "forgot my password"}, 95),
           Group({"password", "login", "log in", "sign in", "access"}, 85),
           Group({"locked out", "cant access", "can't access", "cannot access"}, 90),
           Group({"account", "profile", "settings", "preferences"}, 85),
           Group({"email", "username", "change", "update"}, 80),
           Group({"delete account", "close account", "deactivate"}, 95),
           Group({"personal information", "details", "data"}, 80),
           Group({"verify", "verification", "confirm"}, 75),
           Group({"security", "privacy", "permissions"}, 80) >>
      [] c = FEATURE -> <<
           Group({"add feature", "new feature", "feature request"}, 95),
           Group({"can you add", "could you add", "please add"}, 90),
           Group({"would like", "wish", "hope", "suggestion"}, 85),
           Group({"export", "download", "import", "integrate"}, 80),
           Group({"improve", "enhancement", "better", "easier"}, 75),
           Group({"missing", "need", "want", "require"}, 70) >>
      [] c = BUG -> <<
           Group({"bug", "issue", "problem", "defect"}, 90),
           Group({"unexpected", "incorrect", "wrong", "broken"}, 85),
           Group({"should work", "supposed to", "expected"}, 80),
           Group({"always fails", "consistently", "reproducible"}, 85) >>
      [] c = GENERAL -> <<
           Group({"help", "support", "question", "how"}, 50),
           Group({"what", "why", "when", "where"}, 40),
           Group({"information", "about", "learn"}, 45) >> ]

\* Iteration order of CATEGORY_PATTERNS (dict insertion order).
PatternOrder == << BILLING, TECHNICAL, ACCOUNT, FEATURE, BUG, GENERAL >>

\* _determine_routing: the two trigger lists
critical_keywords ==
  { "urgent", "emergency", "critical", "asap", "immediately", "can't access",
    "cannot access", "locked out", "fraud", "unauthorized", "hacked", "stolen",
    "security breach" }

high_keywords ==
  { "crash", "error", "down", "not working", "broken", "charged twice",
    "double charge", "refund", "money back", "forgot password",
    "reset password" }

\* _detect_multi_intent: MULTI_INTENT_THRESHOLD = 0.5
MULTI_INTENT_THRESHOLD == 3000

\* ------------------------------------------------------------------ queries
\* The fragments the queries of the orchestrator are built from.
Vocabulary ==
  { "refund", "charged twice", "button error", "hacked", "help", "bug" }

\* The fragments the queries of the Rule Engine on its own are built from.
Fragments ==
  Vocabulary \cup
  { "can't access", "cancelled costs", "close account settings",
    "please add export", "supposed to refund but always fails" }

\* TextPreprocessor.preprocess, then `pk in text`: the table terms occurring
\* as substrings in the preprocessed fragment.  The apostrophe of
\* "can't access" becomes a space, so only "access" occurs in it.
Occurs ==
  [f \in Fragments |->
    CASE f = "refund" -> {"refund"}
      [] f = "charged twice" -> {"charged twice", "charged", "charge"}
      [] f = "button error" -> {"button", "error"}
      [] f = "hacked" -> {}
      [] f = "help" -> {"help"}
      [] f = "bug" -> {"bug"}
      [] f = "can't access" -> {"access"}
      [] f = "cancelled costs" -> {"cancel", "cost"}
      [] f = "close account settings" -> {"close account", "account", "settings"}
      [] f = "please add export" -> {"please add", "export"}
      [] f = "supposed to refund but always fails" ->
           {"supposed to", "refund", "always fails"} ]

\* query_text.lower(), then `kw in query_lower`: the trigger keywords occurring
\* as substrings in the lowercased raw fragment.
RawOccurs ==
  [f \in Fragments |->
    CASE f = "refund" -> {"refund"}
      [] f = "charged twice" -> {"charged twice"}
      [] f = "button error" -> {"error"}
      [] f = "hacked" -> {"hacked"}
      [] f = "can't access" -> {"can't access"}
      [] f = "supposed to refund but always fails" -> {"refund"}
      [] OTHER -> {} ]

\* Table terms occurring in the preprocessed text of query q (a set of
\* fragments).
TextTerms(q) == UNION { Occurs[f] : f \in q }

\* Trigger keywords occurring in the lowercased raw text of query q.
RawTerms(q) == UNION { RawOccurs[f] : f \in q }

Queries == { q \in SUBSET Vocabulary : Cardinality(q) \in 1..MaxWords }

\* len(query_text): the fragments and the ", " between them
FragmentLen ==
  [f \in Fragments |->
    CASE f = "refund" -> 6
      [] f = "charged twice" -> 13
      [] f = "button error" -> 12
      [] f = "hacked" -> 6
      [] f = "help" -> 4
      [] f = "bug" -> 3
      [] f = "can't access" -> 12
      [] f = "cancelled costs" -> 15
      [] f = "close account settings" -> 22
      [] f = "please add export" -> 17
      [] f = "supposed to refund but always fails" -> 35 ]

RECURSIVE TextLen(_)
TextLen(q) ==
  IF q = {} THEN 0
  ELSE LET f == CHOOSE f \in q : TRUE
       IN  FragmentLen[f] + (IF q = {f} THEN 0 ELSE 2 + TextLen(q \ {f}))

\* QueryInput.query_text: Field(min_length=5, max_length=2000); every
\* fragment has an alphabetic character.
QueryInput == { q \in Queries : TextLen(q) >= 5 /\ TextLen(q) <= 2000 }

\* extract_keywords: the words of the text longer than 2 characters.
Words ==
  [f \in Fragments |->
    CASE f = "charged twice" -> {"charged", "twice"}
      [] f = "button error" -> {"button", "error"}
      [] f = "can't access" -> {"can", "access"}
      [] f = "cancelled costs" -> {"cancelled", "costs"}
      [] f = "close account settings" -> {"close", "account", "settings"}
      [] f = "please add export" -> {"please", "add", "export"}
      [] f = "supposed to refund but always fails" ->
           {"supposed", "refund", "but", "always", "fails"}
      [] OTHER -> {f} ]

extract_keywords(q) == UNION { Words[f] : f \in q }

\* len(str) of the strings that reach a reasoning text
StrLen(str) ==
  CASE str = "neutral" -> 7
    [] str = "negative" -> 8
    [] str = "normal" -> 6
    [] str = "high" -> 4
    [] str = "refund" -> 6
    [] str = "charged" -> 7
    [] str = "error" -> 5
    [] str = "button" -> 6
    [] str = "help" -> 4
    [] str = "bug" -> 3
    [] str = "access" -> 6
    [] str = "account" -> 7
    [] str = "settings" -> 8
    [] str = "export" -> 6
    [] str = BILLING -> 18
    [] str = TECHNICAL -> 16
    [] str = ACCOUNT -> 18
    [] str = PRODUCT -> 17
    [] str = FEATURE -> 16
    [] str = BUG -> 11
    [] str = GENERAL -> 15

\* len(', '.join(items)) for a set of strings
RECURSIVE JoinLen(_)
JoinLen(items) ==
  IF items = {} THEN 0
  ELSE LET x == CHOOSE x \in items : TRUE
       IN  StrLen(x) + (IF items = {x} THEN 0 ELSE 2 + JoinLen(items \ {x}))

\* -------------------------------------------------------------- rule engine
Min(a, b) == IF a < b THEN a ELSE b

\* matches = sum(1 for pk in pattern_keywords if pk in keywords or pk in text)
GroupMatches(g, q) == Cardinality(g.terms \cap (extract_keywords(q) \cup TextTerms(q)))

\* match_ratio * weight, in 1/Scale (the group size divides 60)
GroupScore(g, q) ==
  (GroupMatches(g, q) * g.weight * 60) \div Cardinality(g.terms)

RECURSIVE TotalScore(_, _, _)
TotalScore(groups, q, i) ==
  IF i > Len(groups) THEN 0
  ELSE (IF GroupMatches(groups[i], q) > 0 THEN GroupScore(groups[i], q) ELSE 0)
       + TotalScore(groups, q, i + 1)

MatchCount(groups, q) ==
  Cardinality({ i \in 1..Len(groups) : GroupMatches(groups[i], q) > 0 })

\* Variant: the first matched group is boosted too.
Boost_EveryGroup(match_count) == Min(900 * match_count, 2100)

\* boost = min(0.15 * (match_count - 1), 0.35)
Boost(match_count) == Min(900 * (match_count - 1), 2100)

CategoryScore(c, q) ==
  LET groups == CATEGORY_PATTERNS[c]
      match_count == MatchCount(groups, q)
  IN  IF match_count > 0
      THEN Min(TotalScore(groups, q, 1) + Boost(match_count), Scale)
      ELSE 0

\* _calculate_category_scores: one entry per key of CATEGORY_PATTERNS
calculate_category_scores(q) ==
  [c \in DOMAIN CATEGORY_PATTERNS |-> CategoryScore(c, q)]

\* Variant: the first category, in dict order, whose score is minimal.
ArgMax_Least(scores) ==
  LET i == CHOOSE i \in 1..Len(PatternOrder) :
             /\ \A j \in 1..Len(PatternOrder) :
                   scores[PatternOrder[j]] >= scores[PatternOrder[i]]
             /\ \A j \in 1..(i - 1) :
                   scores[PatternOrder[j]] > scores[PatternOrder[i]]
  IN  PatternOrder[i]

\* max(scores.items(), key=score): the first category, in dict order, whose
\* score is maximal
ArgMax(scores) ==
  LET i == CHOOSE i \in 1..Len(PatternOrder) :
             /\ \A j \in 1..Len(PatternOrder) :
                   scores[PatternOrder[j]] <= scores[PatternOrder[i]]
             /\ \A j \in 1..(i - 1) :
                   scores[PatternOrder[j]] < scores[PatternOrder[i]]
  IN  PatternOrder[i]

\* Variant: the best category is returned whatever its score.
get_best_category_NoDefault(scores) ==
  LET best == ArgMax(scores)
  IN  [category |-> best, confidence |-> scores[best]]

\* _get_best_category: (category, confidence); low-signal default below 0.2
get_best_category(scores) ==
  LET best == ArgMax(scores)
  IN  IF scores[best] < 1200
      THEN [category |-> GENERAL, confidence |-> 1800]
      ELSE [category |-> best, confidence |-> scores[best]]

\* list.sort(key=score, reverse=True): stable, descending
RECURSIVE InsertDesc(_, _, _)
InsertDesc(sorted, c, scores) ==
  IF sorted = << >> THEN << c >>
  ELSE IF scores[Head(sorted)] >= scores[c]
       THEN << Head(sorted) >> \o InsertDesc(Tail(sorted), c, scores)
       ELSE << c >> \o sorted

RECURSIVE SortDesc(_, _)
SortDesc(list, scores) ==
  IF list = << >> THEN << >>
  ELSE InsertDesc(SortDesc(SubSeq(list, 1, Len(list) - 1), scores),
                  list[Len(list)], scores)

\* Variant: the primary category is not set aside.
IsAdditional_WithPrimary(category, scores, primary_category) ==
  scores[category] >= MULTI_INTENT_THRESHOLD

\* category != primary_category and score >= MULTI_INTENT_THRESHOLD
IsAdditional(category, scores, primary_category) ==
  category # primary_category /\ scores[category] >= MULTI_INTENT_THRESHOLD

\* Variant: the flag is set only from two additional categories on.
detect_multi_intent_OffByOne(scores, primary_category) ==
  LET keep(c) == IsAdditional(c, scores, primary_category)
      additional == SortDesc(SelectSeq(PatternOrder, keep), scores)
  IN  [additional |-> additional, is_multi_intent |-> Len(additional) > 1]

\* _detect_multi_intent: (additional_categories, is_multi_intent)
detect_multi_intent(scores, primary_category) ==
  LET keep(c) == IsAdditional(c, scores, primary_category)
      additional == SortDesc(SelectSeq(PatternOrder, keep), scores)
  IN  [additional |-> additional, is_multi_intent |-> Len(additional) > 0]

\* _get_matched_patterns: the category's terms that are keywords of the query
get_matched_patterns(category, q) ==
  IF category \notin DOMAIN CATEGORY_PATTERNS THEN {}
  ELSE { pk \in UNION { CATEGORY_PATTERNS[category][i].terms :
                          i \in 1..Len(CATEGORY_PATTERNS[category]) } :
         pk \in extract_keywords(q) }

\* Variant: whatever is not critical is high.
RoutingPriority_NeverNormal(has_critical, has_high, is_multi_intent, confidence) ==
  IF has_critical THEN "critical" ELSE "high"

\* _determine_routing, "Determine priority"
RoutingPriority(has_critical, has_high, is_multi_intent, confidence) ==
  IF has_critical THEN "critical"
  ELSE IF has_high \/ is_multi_intent THEN "high"
  ELSE IF confidence < 3000 THEN "high"
  ELSE "normal"

\* Variant: a high trigger in a billing query asks for no review.
RequiresHuman_NoBilling(category, has_critical, has_high, is_multi_intent, confidence) ==
  \/ is_multi_intent
  \/ has_critical
  \/ confidence < 2400

\* _determine_routing, "Determine if human review needed"
RequiresHuman(category, has_critical, has_high, is_multi_intent, confidence) ==
  \/ is_multi_intent
  \/ has_critical
  \/ confidence < 2400
  \/ (category = BILLING /\ has_high)

\* Variant: the routing is decided on the confidence the result carries.
determine_routing_Rounded(category, confidence, is_multi_intent, q) ==
  LET has_critical == (critical_keywords \cap RawTerms(q)) # {}
      has_high == (high_keywords \cap RawTerms(q)) # {}
  IN  [priority |-> RoutingPriority(has_critical, has_high, is_multi_intent,
                                    round_confidence(confidence)),
       requires_human |-> RequiresHuman(category, has_critical, has_high,
                                        is_multi_intent, round_confidence(confidence))]

\* _determine_routing: (routing_priority, requires_human_review); confidence
\* is the score as selected, before the result model rounds it
determine_routing(category, confidence, is_multi_intent, q) ==
  LET has_critical == (critical_keywords \cap RawTerms(q)) # {}
      has_high == (high_keywords \cap RawTerms(q)) # {}
  IN  [priority |-> RoutingPriority(has_critical, has_high, is_multi_intent,
                                    confidence),
       requires_human |-> RequiresHuman(category, has_critical, has_high,
                                        is_multi_intent, confidence)]

\* reasoning = f"Matched {n} patterns: {', '.join(matched_patterns[:3])}"
\*             + f" | Also detected: {other_cats}" when multi-intent.
\* matched_patterns is list(set(...)): which three of more than three terms
\* it shows is the set's iteration order; no query of up to three of the
\* Fragments matches more than three keywords of one category.
RuleReasoningLen(matched, additional) ==
  LET shown == IF Cardinality(matched) <= 3 THEN matched
               ELSE CHOOSE sub \in SUBSET matched : Cardinality(sub) = 3
      also == { additional[i] : i \in 1..Len(additional) }
  IN  20 + JoinLen(shown) + (IF Len(additional) > 0 THEN 18 + JoinLen(also) ELSE 0)

\* RuleBasedClassifier.classify; elapsed is the time the stage took
RuleClassify(q, elapsed) ==
  LET category_scores == calculate_category_scores(q)
      best == get_best_category(category_scores)
      multi == detect_multi_intent(category_scores, best.category)
      matched == get_matched_patterns(best.category, q)
      routing == determine_routing(best.category, best.confidence,
                                   multi.is_multi_intent, q)
  IN  [ category |-> best.category,
        confidence |-> round_confidence(best.confidence),
        method |-> RULE_BASED,
        reasoning |-> [kind |-> "rule",
                       len |-> RuleReasoningLen(matched, multi.additional)],
        response_time_ms |-> elapsed,
        llm_tokens_used |-> NoTokens,
        is_multi_intent |-> multi.is_multi_intent,
        additional_categories |-> multi.additional,
        category_scores |-> category_scores,
        routing_priority |-> routing.priority,
        requires_human_review |-> routing.requires_human ]

\* ------------------------------------------------------------- LLM adapter
\* len("LLM classification failed: ")
FallbackPrefixLen == 27
\* len("JSON parse error"), len("Max retries exceeded")
JsonErrorLen == 16
MaxRetriesMsgLen == 20
\* LLMClassifier.classify(query_text, max_retries=3)
DefaultMaxRetries == 3
\* confidence=min(confidence, 0.95)
ConfidenceCap == 5700
\* _create_fallback_result: confidence=0.3
FallbackConfidence == 1800

\* Lengths of the messages str(e) of the exceptions a remote call or the
\* decoding can raise.
ErrLens == {0, 473, 474}

\* The exception classes of a failed remote call and the except clause of
\* LLMClassifier.classify that handles each: RateLimitError is caught by the
\* first clause, APIError and APITimeoutError by the second, anything else
\* by the third.
ErrorKinds == {"RateLimitError", "APITimeoutError", "APIError", "Exception"}

RECURSIVE Pow2(_)
Pow2(n) == IF n = 0 THEN 1 ELSE 2 * Pow2(n - 1)

\* Variant: every retry waits one second.
RetryWait_Constant(kind, attempt) ==
  IF kind \in {"RateLimitError", "APITimeoutError", "APIError"} THEN 1 ELSE 0

\* The sleep before the next attempt, 0 when the clause does not retry.
RetryWait(kind, attempt) ==
  CASE kind = "RateLimitError" -> Pow2(attempt)
    [] kind \in {"APITimeoutError", "APIError"} -> 1
    [] OTHER -> 0

\* Variant: every exception is retried while attempts remain.
Retryable_Any(kind) == kind \in ErrorKinds

\* The except clauses that retry while attempt < max_retries.
Retryable(kind) == kind \in {"RateLimitError", "APITimeoutError", "APIError"}

\* ClassificationResult validation of what the adapter passes: confidence in
\* [0,1] and reasoning of 1..500 characters.
ValidResult(confidence, reasoning_len) ==
  /\ confidence >= 0
  /\ confidence <= Scale
  /\ reasoning_len >= ReasoningMinLen
  /\ reasoning_len <= ReasoningMaxLen

LLMResult(category, confidence, kind, reasoning_len, elapsed, tokens) ==
  [ category |-> category,
    confidence |-> round_confidence(confidence),
    method |-> LLM_FALLBACK,
    reasoning |-> [kind |-> kind, len |-> reasoning_len],
    response_time_ms |-> elapsed,
    llm_tokens_used |-> tokens,
    is_multi_intent |-> FALSE,
    additional_categories |-> << >>,
    category_scores |-> NoScores,
    routing_priority |-> "normal",
    requires_human_review |-> FALSE ]

\* _create_fallback_result: the result, or Null when its construction raises
\* the validation error of a reasoning longer than 500 characters.
create_fallback_result(elapsed, err_len) ==
  IF ValidResult(FallbackConfidence, FallbackPrefixLen + err_len)
  THEN LLMResult(GENERAL, FallbackConfidence, "fallback",
                 FallbackPrefixLen + err_len, elapsed, NoTokens)
  ELSE Null

\* reasoning after the sentiment/urgency suffix
\* f"{reasoning} [Sentiment: {sentiment}, Urgency: {urgency}]"
ReasoningLen(resp) ==
  IF resp.sentiment # "neutral" \/ resp.urgency # "normal"
  THEN resp.reasoning_len + 25 + StrLen(resp.sentiment) + StrLen(resp.urgency)
  ELSE resp.reasoning_len

\* Variant: the category string is taken as it comes.
DecodeCategory_Unchecked(category_str) == category_str

\* category = SupportCategory(category_str), GENERAL on ValueError
DecodeCategory(category_str) ==
  IF category_str \in SupportCategory THEN category_str ELSE GENERAL

\* Variant: the confidence is capped at 1.0.
CapConfidence_AtOne(confidence) == Min(confidence, Scale)

\* confidence=min(confidence, 0.95)
CapConfidence(confidence) == Min(confidence, ConfidenceCap)

\* The ClassificationResult constructor accepts the decoded response.
Decodes(resp) ==
  ValidResult(CapConfidence(resp.confidence), ReasoningLen(resp))

\* The remote service's answers.  content: "json" is a JSON object, "malformed"
\* fails json.loads, "bad" decodes in a way that makes the decoding raise
\* another exception (a non-object, a non-numeric confidence).  err_len is
\* the length of the message of the exception the decoding raises, if any.
LLMCategories == {BILLING, "Shipping"}
LLMConfidences == {0 - 600, 1800, 1830, 4140, 5256, 5694, 9000}
LLMReasoningLens == {0, 60, 480}
Moods == { <<"neutral", "normal">>, <<"neutral", "high">>, <<"negative", "high">> }
TokenCounts == {150, 310}


JsonResponses ==
  { resp \in [ content : {"json"}, category : LLMCategories,
               confidence : LLMConfidences, reasoning_len : LLMReasoningLens,
               sentiment : {"neutral", "negative"}, urgency : {"normal", "high"},
               total_tokens : TokenCounts, err_len : ErrLens ] :
      /\ << resp.sentiment, resp.urgency >> \in Moods
      /\ Decodes(resp) => resp.err_len = 0 }

BrokenResponses ==
  [ content : {"malformed", "bad"}, category : {GENERAL}, confidence : {0},
    reasoning_len : {0}, sentiment : {"neutral"}, urgency : {"normal"},
    total_tokens : {150}, err_len : ErrLens ]

Responses == JsonResponses \cup BrokenResponses

\* The answers explored below the orchestrator, where only the confidence,
\* the category and the validity of the answer matter.
Explored(who, resp) ==
  who = "hybrid" =>
    /\ resp.confidence \in {0 - 600, 1800, 4140, 5256, 9000}
    /\ resp.reasoning_len \in {0, 60}
    /\ resp.urgency = "normal"
    /\ resp.total_tokens = 150

\* _parse_response.  Returns the result; Null when an exception leaves
\* _parse_response (the fallback built in its except clause failed validation;
\* LLMClassifier.classify then catches that validation error).
parse_response(resp, elapsed) ==
  CASE resp.content = "malformed" -> create_fallback_result(elapsed, JsonErrorLen)
    [] resp.content = "bad" -> create_fallback_result(elapsed, resp.err_len)
    [] OTHER ->
       LET confidence == CapConfidence(resp.confidence)
       IN  IF ValidResult(confidence, ReasoningLen(resp))
           THEN LLMResult(DecodeCategory(resp.category), confidence, "llm",
                          ReasoningLen(resp), elapsed, resp.total_tokens)
           ELSE create_fallback_result(elapsed, resp.err_len)

\* The report of a single string_too_long validation error quotes only a
\* truncated prefix of the offending value, so its length fits a reasoning.
ValidationReportLens == { l \in ErrLens : FallbackPrefixLen + l <= ReasoningMaxLen }

\* ------------------------------------------------------------------ router
\* router.py RoutingDestination
AUTO_RESPONSE == "auto_response"
TIER_1_SUPPORT == "tier_1_support"
TIER_2_SUPPORT == "tier_2_support"
SPECIALIST_BILLING == "specialist_billing"
SPECIALIST_TECHNICAL == "specialist_technical"
ESCALATION_TEAM == "escalation_team"
MULTI_INTENT_TRIAGE == "multi_intent_triage"

\* router.py RoutingAction
SINGLE_TICKET == "single_ticket"
SPLIT_TICKETS == "split_tickets"
ESCALATE_IMMEDIATELY == "escalate_immediately"
QUEUE_NORMAL == "queue_normal"
QUEUE_PRIORITY == "queue_priority"

\* A text built by an f-string: the literal template, the categories and the
\* number formatted into it (NoNumber when it has none).
NoNumber == 0 - 1
Text(template, categories, number) ==
  [template |-> template, categories |-> categories, number |-> number]

\* f"{confidence:.0%}": the confidence times 100, formatted with no decimals
\* (round half to even)
Percent(confidence) ==
  LET lo == confidence \div 60
      r  == confidence % 60
  IN  IF r < 30 THEN lo
      ELSE IF r > 30 THEN lo + 1
      ELSE IF lo % 2 = 0 THEN lo ELSE lo + 1

\* RoutingDecision.__init__.  split_categories or []: the default None and
\* the empty list both give the empty list, so an omitted split_categories is
\* passed as << >>; an omitted special_instructions is None.
RoutingDecision(destination, action, priority, estimated_wait_time, reasoning, requires_split, split_categories, special_instructions) ==
  [ destination |-> destination,
    action |-> action,
    priority |-> priority,
    estimated_wait_time |-> estimated_wait_time,
    reasoning |-> reasoning,
    requires_split |-> requires_split,
    split_categories |-> IF Len(split_categories) = 0 THEN << >> ELSE split_categories,
    special_instructions |-> special_instructions ]

\* Variant: only the additional categories are counted.
IntentCount_AdditionalOnly(r) == Len(r.additional_categories)

\* intent_count = 1 + len(result.additional_categories)
IntentCount(r) == 1 + Len(r.additional_categories)

\* SmartRouter._route_multi_intent
route_multi_intent(r) ==
  LET intent_count == IntentCount(r)
  IN  IF intent_count = 2 /\ r.confidence >= 4200
      THEN RoutingDecision(
             TIER_2_SUPPORT, SINGLE_TICKET, r.routing_priority, "5-15 minutes",
             Text("Multi-intent query ({} + {}). Routing to senior agent for comprehensive handling.",
                  << r.category, r.additional_categories[1] >>, NoNumber),
             FALSE, << >>,
             Text("Query contains multiple issues: {} and {}. Address all concerns in response.",
                  << r.category >> \o r.additional_categories, NoNumber))
      ELSE RoutingDecision(
             MULTI_INTENT_TRIAGE, SPLIT_TICKETS, "high", "Immediate triage",
             Text("Complex multi-intent query with {} distinct issues. Recommend splitting into separate tickets for specialized handling.",
                  << >>, intent_count),
             TRUE, << r.category >> \o r.additional_categories,
             Text("Split this query into separate tickets: {} Ensure all tickets are linked for context.",
                  << r.category >> \o r.additional_categories, NoNumber))

\* SmartRouter._route_critical
route_critical(r) ==
  RoutingDecision(
    ESCALATION_TEAM, ESCALATE_IMMEDIATELY, "critical", "Immediate",
    Text("Critical issue detected in {}. Immediate escalation required.",
         << r.category >>, NoNumber),
    FALSE, << >>,
    Text("Alert on-call manager. Immediate response required.", << >>, NoNumber))

\* Variant: a low confidence goes to the senior agents' priority queue.
route_low_confidence_Senior(r) ==
  RoutingDecision(
    TIER_2_SUPPORT, QUEUE_PRIORITY, r.routing_priority, "15-30 minutes",
    Text("Low confidence classification ({}). Human agent will assess and recategorize if needed.",
         << >>, Percent(r.confidence)),
    FALSE, << >>,
    Text("AI classified as {} with low confidence. Please verify category and recategorize if needed.",
         << r.category >>, NoNumber))

\* SmartRouter._route_low_confidence
route_low_confidence(r) ==
  RoutingDecision(
    TIER_1_SUPPORT, QUEUE_NORMAL, r.routing_priority, "15-30 minutes",
    Text("Low confidence classification ({}). Human agent will assess and recategorize if needed.",
         << >>, Percent(r.confidence)),
    FALSE, << >>,
    Text("AI classified as {} with low confidence. Please verify category and recategorize if needed.",
         << r.category >>, NoNumber))

\* _route_by_category: routing_map, category -> (destination, wait time, reason)
routing_map ==
  [c \in SupportCategory |->
    CASE c = BILLING -> << SPECIALIST_BILLING, "10-20 minutes",
                           "Billing specialist for payment issues" >>
      [] c = TECHNICAL -> << SPECIALIST_TECHNICAL, "15-25 minutes",
                             "Technical specialist for troubleshooting" >>
      [] c = ACCOUNT -> << TIER_1_SUPPORT, "5-10 minutes",
                           "Tier 1 support for account management" >>
      [] c = FEATURE -> << TIER_2_SUPPORT, "1-2 hours",
                           "Product team for feature request evaluation" >>
      [] c = BUG -> << SPECIALIST_TECHNICAL, "20-30 minutes",
                       "Technical team for bug investigation" >>
      [] c = PRODUCT -> << TIER_1_SUPPORT, "5-15 minutes",
                           "General support for product questions" >>
      [] c = GENERAL -> << AUTO_RESPONSE, "Immediate",
                           "Automated FAQ response system" >> ]

\* Variant: only a critical priority goes to the priority queue.
QueueAction_CriticalOnly(routing_priority) ==
  IF routing_priority \in {"critical"} THEN QUEUE_PRIORITY ELSE QUEUE_NORMAL

\* QUEUE_PRIORITY if result.routing_priority in ["critical", "high"]
QueueAction(routing_priority) ==
  IF routing_priority \in {"critical", "high"} THEN QUEUE_PRIORITY ELSE QUEUE_NORMAL

\* SmartRouter._route_by_category
route_by_category(r) ==
  LET entry == IF r.category \in DOMAIN routing_map
               THEN routing_map[r.category]
               ELSE << TIER_1_SUPPORT, "10-20 minutes", "General support queue" >>
  IN  RoutingDecision(
        entry[1], QueueAction(r.routing_priority), r.routing_priority, entry[2],
        Text(entry[3] \o ". Confidence: {}", << >>, Percent(r.confidence)),
        FALSE, << >>, Null)

\* Variant: the confidence is tested before the priority.
RouteBranch_ConfidenceFirst(r) ==
  IF r.is_multi_intent THEN "multi_intent"
  ELSE IF r.confidence < 3000 THEN "low_confidence"
  ELSE IF r.routing_priority = "critical" THEN "critical"
  ELSE "by_category"

\* The branch SmartRouter.route takes
RouteBranch(r) ==
  IF r.is_multi_intent THEN "multi_intent"
  ELSE IF r.routing_priority = "critical" THEN "critical"
  ELSE IF r.confidence < 3000 THEN "low_confidence"
  ELSE "by_category"

\* SmartRouter.route
route(r) ==
  CASE RouteBranch(r) = "multi_intent" -> route_multi_intent(r)
    [] RouteBranch(r) = "critical" -> route_critical(r)
    [] RouteBranch(r) = "low_confidence" -> route_low_confidence(r)
    [] OTHER -> route_by_category(r)

\* The results handed to SmartRouter.route by a caller that built them:
\* any valid ClassificationResult.  routing_priority is a free string whose
\* documented values are critical, high, normal, low.
GivenConfidences == {1800, 2940, 3000, 4140, 4200}
GivenAdditional == { << >>, << TECHNICAL >>, << TECHNICAL, ACCOUNT >> }
Priorities == {"low", "normal", "high", "critical"}

GivenResults ==
  [ category : SupportCategory,
    confidence : GivenConfidences,
    method : {HYBRID},
    reasoning : {[kind |-> "given", len |-> 1]},
    response_time_ms : {0},
    llm_tokens_used : {NoTokens},
    is_multi_intent : BOOLEAN,
    additional_categories : GivenAdditional,
    category_scores : {NoScores},
    routing_priority : Priorities,
    requires_human_review : {FALSE} ]

\* ------------------------------------------------------------------- state
\* Settings.confidence_threshold (default 0.7), fixed when settings load
Thresholds == {4200, 3240}

VARIABLES
  confidence_threshold, \* settings.confidence_threshold
  pc,           \* "idle", "calling" (a remote call is in flight), "done", "raised"
  caller,       \* "none"; "hybrid": HybridClassifier.classify; "adapter": LLMClassifier.classify alone
  query,        \* the query text being classified
  rule_result,  \* the Rule Engine's result for query
  max_retries,  \* parameter of LLMClassifier.classify
  attempt,      \* loop variable of the retry loop
  calls,        \* remote calls made for this query
  events,       \* per remote call made: its outcome and the sleep that followed
  now,          \* clock, relative to the start of the current classification
  llm_start,    \* start_time of LLMClassifier.classify
  response,     \* the answer of the last remote call, when it answered
  llm_result,   \* the result LLMClassifier.classify returned, as returned
  result,       \* the result returned to the caller
  decision,     \* the RoutingDecision SmartRouter.route returned for result
  queries,      \* classify_batch: its argument
  results,      \* classify_batch: its local list of results
  batch_pc,     \* classify_batch: "none", "running", "returned", "raised"
  text,         \* a raw text given to the input model or to the preprocessor
  stored,       \* the outcome of QueryInput(query_text=text)
  cleaned,      \* the value of preprocess(text)
  keywords      \* the value of extract_keywords(text)

vars == << confidence_threshold, pc, caller, query, rule_result, max_retries,
           attempt, calls, events, now, llm_start, response, llm_result,
           result, decision, queries, results, batch_pc, text, stored,
           cleaned, keywords >>

batch_vars == << queries, results, batch_pc >>
text_vars == << text, stored, cleaned, keywords >>

Init ==
  /\ confidence_threshold \in Thresholds
  /\ pc = "idle"
  /\ caller = "none"
  /\ query = {}
  /\ rule_result = Null
  /\ max_retries = 0
  /\ attempt = 0
  /\ calls = 0
  /\ events = << >>
  /\ now = 0
  /\ llm_start = 0
  /\ response = Null
  /\ llm_result = Null
  /\ result = Null
  /\ decision = Null
  /\ queries = << >>
  /\ results = << >>
  /\ batch_pc = "none"
  /\ text = Null
  /\ stored = Null
  /\ cleaned = Null
  /\ keywords = Null

\* Variant: a rule confidence equal to the threshold escalates.
Sufficient_Strict(confidence, threshold) == confidence > threshold

\* HybridClassifier.classify, step 2:
\* rule_result.confidence >= self.settings.confidence_threshold
Sufficient(confidence, threshold) == confidence >= threshold

\* Variant: a tie goes to the LLM result.
Arbitrate_TieToLLM(rule, llm, t) ==
  IF llm.confidence >= rule.confidence
  THEN [llm EXCEPT !.response_time_ms = t]
  ELSE rule

\* HybridClassifier.classify, step 4: arbitration on the adapter's result llm
\* at time t (start_time of the orchestrator is 0)
Arbitrate(rule, llm, t) ==
  IF llm.confidence > rule.confidence
  THEN [llm EXCEPT !.response_time_ms = t]
  ELSE rule

\* Variant: the winning LLM result is stamped with the time since the
\* escalation.
Return_SinceEscalation(llm, t) ==
  /\ llm_result' = llm
  /\ result' = IF caller = "hybrid"
               THEN Arbitrate(rule_result, llm, t - llm_start)
               ELSE llm
  /\ pc' = "done"

\* LLMClassifier.classify returns llm at time t; the orchestrator, when it is
\* the caller, arbitrates and returns.
Return(llm, t) ==
  /\ llm_result' = llm
  /\ result' = IF caller = "hybrid" THEN Arbitrate(rule_result, llm, t) ELSE llm
  /\ pc' = "done"

\* An exception leaves LLMClassifier.classify and, uncaught by
\* HybridClassifier.classify, reaches the caller.
Raise ==
  /\ llm_result' = Null
  /\ result' = Null
  /\ pc' = "raised"

\* return self._create_fallback_result(query_text, start_time, str(e))
ReturnFallback(err_len, t) ==
  LET fb == create_fallback_result(t - llm_start, err_len)
  IN  IF fb = Null THEN Raise ELSE Return(fb, t)

\* HybridClassifier.classify up to the first remote call: the rule stage takes
\* rule_time; at or above the threshold the rule result is returned, below
\* it LLMClassifier.classify starts with the default max_retries.
Classify(q, rule_time) ==
  /\ pc = "idle"
  /\ LET rule == RuleClassify(q, rule_time)
     IN  /\ query' = q
         /\ caller' = "hybrid"
         /\ rule_result' = rule
         /\ now' = rule_time
         /\ llm_start' = rule_time
         /\ max_retries' = DefaultMaxRetries
         /\ calls' = 0
         /\ events' = << >>
         /\ response' = Null
         /\ llm_result' = Null
         /\ IF Sufficient(rule.confidence, confidence_threshold)
            THEN /\ result' = rule
                 /\ pc' = "done"
                 /\ attempt' = 0
            ELSE /\ result' = Null
                 /\ pc' = "calling"
                 /\ attempt' = 1
  /\ UNCHANGED << confidence_threshold, decision >>
  /\ UNCHANGED << batch_vars, text_vars >>

\* LLMClassifier.classify called on its own with max_retries = mr, up to the
\* first remote call; with mr = 0 the loop body never runs.
AdapterClassify(q, mr) ==
  /\ pc = "idle"
  /\ query' = q
  /\ caller' = "adapter"
  /\ rule_result' = Null
  /\ now' = 0
  /\ llm_start' = 0
  /\ max_retries' = mr
  /\ calls' = 0
  /\ events' = << >>
  /\ response' = Null
  /\ IF mr >= 1
     THEN /\ pc' = "calling"
          /\ attempt' = 1
          /\ llm_result' = Null
          /\ result' = Null
     ELSE /\ attempt' = 0
          /\ Return(create_fallback_result(0, MaxRetriesMsgLen), 0)
  /\ UNCHANGED << confidence_threshold, decision >>
  /\ UNCHANGED << batch_vars, text_vars >>

\* The remote call of the current attempt raises an exception of class kind
\* with a message of err_len characters.
RemoteFails(kind, err_len) ==
  /\ pc = "calling"
  /\ calls' = calls + 1
  /\ IF Retryable(kind) /\ attempt < max_retries
     THEN /\ events' = Append(events, [kind |-> kind, wait |-> RetryWait(kind, attempt)])
          /\ now' = now + 1 + RetryWait(kind, attempt)
          /\ attempt' = attempt + 1
          /\ UNCHANGED << pc, llm_result, result >>
     ELSE /\ events' = Append(events, [kind |-> kind, wait |-> 0])
          /\ now' = now + 1
          /\ UNCHANGED attempt
          /\ ReturnFallback(err_len, now + 1)
  /\ UNCHANGED << confidence_threshold, caller, query, rule_result, max_retries,
                  llm_start, response, decision >>
  /\ UNCHANGED << batch_vars, text_vars >>

\* The remote call of the current attempt returns resp.
RemoteResponds(resp, report_len) ==
  /\ pc = "calling"
  /\ calls' = calls + 1
  /\ events' = Append(events, [kind |-> resp.content, wait |-> 0])
  /\ now' = now + 1
  /\ response' = resp
  /\ LET parsed == parse_response(resp, now + 1 - llm_start)
     IN  IF parsed = Null
         THEN ReturnFallback(report_len, now + 1)
         ELSE /\ report_len = 0
              /\ Return(parsed, now + 1)
  /\ UNCHANGED << confidence_threshold, caller, query, rule_result, max_retries,
                  attempt, llm_start, decision >>
  /\ UNCHANGED << batch_vars, text_vars >>

\* The caller takes the outcome; the classifier is ready for the next query.
NextQuery ==
  /\ pc \in {"done", "raised"}
  /\ pc' = "idle"
  /\ caller' = "none"
  /\ query' = {}
  /\ rule_result' = Null
  /\ max_retries' = 0
  /\ attempt' = 0
  /\ calls' = 0
  /\ events' = << >>
  /\ now' = 0
  /\ llm_start' = 0
  /\ response' = Null
  /\ llm_result' = Null
  /\ result' = Null
  /\ decision' = Null
  /\ UNCHANGED confidence_threshold
  /\ UNCHANGED << batch_vars, text_vars >>

RuleTimes == {0, 1}

\* The texts the adapter is called with on its own (its control flow does not
\* read the text).
AdapterQueries == { {"refund"}, {"hacked"} }

Next ==
  \/ \E q \in QueryInput, rule_time \in RuleTimes : Classify(q, rule_time)
  \/ \E q \in AdapterQueries, mr \in 0..MaxRetries : AdapterClassify(q, mr)
  \/ \E kind \in ErrorKinds, err_len \in ErrLens : RemoteFails(kind, err_len)
  \/ \E resp \in Responses, report_len \in ValidationReportLens :
       Explored(caller, resp) /\ RemoteResponds(resp, report_len)
  \/ NextQuery

Spec == Init /\ [][Next]_vars

\* ------------------------------------------- rule engine and router alone
\* The texts RuleBasedClassifier.classify is called with on its own, the
\* empty text included.
RuleQueries == { q \in SUBSET Fragments : Cardinality(q) \in 0..MaxWords }

\* RuleBasedClassifier.classify called on its own: the whole call, which
\* makes no remote call and takes elapsed.
RuleEngineClassify(q, elapsed) ==
  /\ pc = "idle"
  /\ query' = q
  /\ caller' = "rule"
  /\ rule_result' = RuleClassify(q, elapsed)
  /\ result' = RuleClassify(q, elapsed)
  /\ now' = elapsed
  /\ pc' = "done"
  /\ UNCHANGED << confidence_threshold, max_retries, attempt, calls, events,
                  llm_start, response, llm_result, decision >>
  /\ UNCHANGED << batch_vars, text_vars >>

\* A caller holds a result r it built and is about to route it.
Submit(r) ==
  /\ pc = "idle"
  /\ caller' = "router"
  /\ result' = r
  /\ pc' = "done"
  /\ UNCHANGED << confidence_threshold, query, rule_result, max_retries, attempt,
                  calls, events, now, llm_start, response, llm_result, decision >>
  /\ UNCHANGED << batch_vars, text_vars >>

\* routing = router.route(result)
Route ==
  /\ pc = "done"
  /\ result # Null
  /\ decision = Null
  /\ decision' = route(result)
  /\ UNCHANGED << confidence_threshold, pc, caller, query, rule_result,
                  max_retries, attempt, calls, events, now, llm_start, response,
                  llm_result, result >>
  /\ UNCHANGED << batch_vars, text_vars >>

NextRoute ==
  \/ \E q \in RuleQueries, elapsed \in RuleTimes : RuleEngineClassify(q, elapsed)
  \/ \E r \in GivenResults : Submit(r)
  \/ Route
  \/ NextQuery

RouteSpec == Init /\ [][NextRoute]_vars

\* ---------------------------------------------------------- classify_batch
MaxBatch == 2

\* The texts of a batch: one that escalates under the default threshold, one
\* that never escalates, one of the low-signal default.
BatchQueries == { {"refund"}, {"refund", "charged twice"}, {"hacked"} }

RECURSIVE SeqsUpTo(_, _)
SeqsUpTo(S, n) ==
  IF n = 0 THEN { << >> }
  ELSE LET shorter == SeqsUpTo(S, n - 1)
       IN  shorter \cup { Append(list, x) : list \in shorter, x \in S }

Batches == SeqsUpTo(BatchQueries, MaxBatch)

\* The remote outcomes explored below the batch: an answer that wins, one
\* that loses, an undecodable one; a failure that is retried and one that
\* is not, with a message that fits a reasoning and one that does not.
BatchResponses ==
  { resp \in Responses :
      /\ resp.content \in {"json", "malformed"}
      /\ resp.category \in {BILLING, GENERAL}
      /\ resp.confidence \in {0, 1800, 5256}
      /\ resp.reasoning_len \in {0, 60}
      /\ resp.content = "json" => resp.reasoning_len = 60
      /\ resp.urgency = "normal"
      /\ resp.total_tokens = 150
      /\ resp.err_len = 0 }

BatchErrorKinds == {"RateLimitError", "Exception"}
BatchErrLens == {0, 474}

\* for i, query in enumerate(queries): the query of the next iteration
NextInBatch(given, collected) == given[Len(collected) + 1]

\* Variant: the result is put at the front of the list.
Collect_AtFront(collected, r) == << r >> \o collected

\* results.append(result)
Collect(collected, r) == Append(collected, r)

\* The locals of a finished call of HybridClassifier.classify are gone.
CallGone ==
  /\ pc' = "idle"
  /\ caller' = "none"
  /\ query' = {}
  /\ rule_result' = Null
  /\ max_retries' = 0
  /\ attempt' = 0
  /\ calls' = 0
  /\ events' = << >>
  /\ now' = 0
  /\ llm_start' = 0
  /\ response' = Null
  /\ llm_result' = Null
  /\ result' = Null

\* classify_batch(given) is entered: results = []
ClassifyBatch(given) ==
  /\ pc = "idle"
  /\ batch_pc # "running"
  /\ queries' = given
  /\ results' = << >>
  /\ batch_pc' = "running"
  /\ UNCHANGED << confidence_threshold, pc, caller, query, rule_result,
                  max_retries, attempt, calls, events, now, llm_start, response,
                  llm_result, result, decision, text_vars >>

\* result = self.classify(query), for the next query of the loop
BatchClassify(rule_time) ==
  /\ batch_pc = "running"
  /\ Len(results) < Len(queries)
  /\ Classify(NextInBatch(queries, results), rule_time)

\* The call of the current iteration returned: results.append(result)
BatchAppend ==
  /\ batch_pc = "running"
  /\ pc = "done"
  /\ results' = Collect(results, result)
  /\ CallGone
  /\ UNCHANGED << confidence_threshold, decision, queries, batch_pc, text_vars >>

\* The call of the current iteration raised: nothing in classify_batch
\* catches it, the exception leaves classify_batch and its list is lost.
BatchRaise ==
  /\ batch_pc = "running"
  /\ pc = "raised"
  /\ results' = << >>
  /\ batch_pc' = "raised"
  /\ CallGone
  /\ UNCHANGED << confidence_threshold, decision, queries, text_vars >>

\* The loop is over: return results
BatchReturn ==
  /\ batch_pc = "running"
  /\ pc = "idle"
  /\ Len(results) = Len(queries)
  /\ batch_pc' = "returned"
  /\ UNCHANGED << confidence_threshold, pc, caller, query, rule_result,
                  max_retries, attempt, calls, events, now, llm_start, response,
                  llm_result, result, decision, queries, results, text_vars >>

NextBatch ==
  \/ \E given \in Batches : ClassifyBatch(given)
  \/ \E rule_time \in RuleTimes : BatchClassify(rule_time)
  \/ \E kind \in BatchErrorKinds, err_len \in BatchErrLens : RemoteFails(kind, err_len)
  \/ \E resp \in BatchResponses : RemoteResponds(resp, 0)
  \/ BatchAppend
  \/ BatchRaise
  \/ BatchReturn

BatchSpec == Init /\ [][NextBatch]_vars

\* ------------------------------------------- input model and preprocessor
\* A text is a sequence of symbols.  A symbol is a character, named when it
\* is not printable ASCII: "US" is U+001F, "EUR" the euro sign, "E_ACUTE" a
\* non-ASCII letter; or a run of characters that the steps below handle as
\* one piece: "URL" is http://t.co/7, "EMAIL" is a7@b.co, each set off by
\* whitespace, and "RUN" is 1996 letters a.
MaxChunks == 2

LowerLetters == {"a", "b", "c", "k", "RUN"}
UpperLetters == {"K"}
Digits == {"7"}
\* the characters _remove_emojis names as currency
CurrencySymbols == {"$", "EUR"}
NonAscii == {"EUR", "E_ACUTE"}
\* str.isalpha holds of a character of the symbol
Alphabetic == LowerLetters \cup UpperLetters \cup {"E_ACUTE", "URL", "EMAIL"}
\* str.strip(), str.split(), str.isspace() and \s of re
Whitespace == {" ", "US"}
\* str_strip_whitespace of the model configuration: Unicode White_Space,
\* which U+001C..U+001F are not part of
CoreWhitespace == {" "}
\* _multi_punct_pattern ([!?.]){2,}
RepeatedPunctuation == {"!", "?", "."}
\* word.strip('.,!?;:-')
StripCharacters == {".", ",", "!", "?", ";", ":", "-"}
\* _special_chars_pattern [^a-zA-Z0-9\s.,!?;:$\-]
KeptCharacters ==
  LowerLetters \cup UpperLetters \cup Digits \cup Whitespace
    \cup {".", ",", "!", "?", ";", ":", "$", "-"}

\* len() of the symbol
SymLen(c) ==
  CASE c = "RUN" -> 1996
    [] c = "URL" -> 13
    [] c = "EMAIL" -> 7
    [] OTHER -> 1

RECURSIVE CharCount(_)
CharCount(t) == IF Len(t) = 0 THEN 0 ELSE SymLen(Head(t)) + CharCount(Tail(t))

\* The pieces texts are made of
Chunks ==
  { << >>,
    << "a", "b", "c" >>,
    << "a", "b", "." >>,
    << "-", "K", "a", "b", "!", "!" >>,
    << "a", "-", "b" >>,
    << "a", "'", "b" >>,
    << "7", ".", "!", "7" >>,
    << "$", "7" >>,
    << "EUR", "7" >>,
    << "E_ACUTE" >>,
    << "US" >>,
    << "URL" >>,
    << "EMAIL" >>,
    << "RUN" >> }

RECURSIVE JoinChunks(_)
JoinChunks(chunks) ==
  IF Len(chunks) = 0 THEN << >>
  ELSE IF Len(chunks) = 1 THEN chunks[1]
  ELSE chunks[1] \o << " " >> \o JoinChunks(Tail(chunks))

\* The texts given: up to MaxChunks pieces with a space between two.
Texts == { JoinChunks(chunks) : chunks \in SeqsUpTo(Chunks, MaxChunks) }

RECURSIVE LStrip(_, _)
LStrip(t, S) == IF Len(t) > 0 /\ Head(t) \in S THEN LStrip(Tail(t), S) ELSE t

RECURSIVE RStrip(_, _)
RStrip(t, S) ==
  IF Len(t) > 0 /\ t[Len(t)] \in S THEN RStrip(SubSeq(t, 1, Len(t) - 1), S) ELSE t

\* str.strip
Strip(t, S) == RStrip(LStrip(t, S), S)

\* QueryInput.validate_query_not_empty, when it does not raise
validate_query_not_empty(v) == Strip(v, Whitespace)

\* QueryInput(query_text=t): the string validation of the field (strip, then
\* min_length and max_length), then the two field validators in order.
ValidateQueryText(t) ==
  LET v == Strip(t, CoreWhitespace)
  IN  IF CharCount(v) < 5 THEN [valid |-> FALSE, error |-> "string_too_short"]
      ELSE IF CharCount(v) > 2000 THEN [valid |-> FALSE, error |-> "string_too_long"]
      ELSE IF Len(v) = 0 \/ Len(Strip(v, Whitespace)) = 0
      THEN [valid |-> FALSE, error |-> "value_error"]
      ELSE LET w == validate_query_not_empty(v)
           IN  IF \E i \in 1..Len(w) : w[i] \in Alphabetic
               THEN [valid |-> TRUE, query_text |-> w]
               ELSE [valid |-> FALSE, error |-> "value_error"]

\* _remove_urls: self._url_pattern.sub(' ', text)
remove_urls(t) == [ i \in 1..Len(t) |-> IF t[i] = "URL" THEN " " ELSE t[i] ]

\* _remove_emails: self._email_pattern.sub(' ', text)
remove_emails(t) == [ i \in 1..Len(t) |-> IF t[i] = "EMAIL" THEN " " ELSE t[i] ]

\* _remove_emojis: ord(char) < 128 or a currency symbol is kept
remove_emojis(t) ==
  [ i \in 1..Len(t) |->
      IF t[i] \notin NonAscii \/ t[i] \in CurrencySymbols THEN t[i] ELSE " " ]

\* _normalize_punctuation: a run of two or more of ! ? . becomes its last
\* character (the last repetition of the group)
RECURSIVE normalize_punctuation(_)
normalize_punctuation(t) ==
  IF Len(t) = 0 THEN t
  ELSE IF Len(t) >= 2 /\ t[1] \in RepeatedPunctuation /\ t[2] \in RepeatedPunctuation
  THEN normalize_punctuation(Tail(t))
  ELSE << t[1] >> \o normalize_punctuation(Tail(t))

\* _remove_special_characters: self._special_chars_pattern.sub(' ', text)
remove_special_characters(t) ==
  [ i \in 1..Len(t) |-> IF t[i] \in KeptCharacters THEN t[i] ELSE " " ]

\* str.lower
Lower(t) == [ i \in 1..Len(t) |-> IF t[i] = "K" THEN "k" ELSE t[i] ]

\* _normalize_whitespace: self._whitespace_pattern.sub(' ', text)
RECURSIVE normalize_whitespace(_)
normalize_whitespace(t) ==
  IF Len(t) = 0 THEN t
  ELSE IF t[1] \in Whitespace
  THEN << " " >> \o normalize_whitespace(LStrip(t, Whitespace))
  ELSE << t[1] >> \o normalize_whitespace(Tail(t))

\* TextPreprocessor.preprocess under the default PreprocessingConfig
preprocess(t) ==
  IF Len(t) = 0 \/ Len(Strip(t, Whitespace)) = 0 THEN << >>
  ELSE Strip(normalize_whitespace(Lower(remove_special_characters(
         normalize_punctuation(remove_emojis(remove_emails(remove_urls(t))))))),
         Whitespace)

\* The length of the first word of a text that starts with one
WordLen(t) ==
  CHOOSE n \in 1..Len(t) :
    /\ \A i \in 1..n : t[i] \notin Whitespace
    /\ n = Len(t) \/ t[n + 1] \in Whitespace

\* str.split()
RECURSIVE Split(_)
Split(t) ==
  LET rest == LStrip(t, Whitespace)
  IN  IF Len(rest) = 0 THEN << >>
      ELSE << SubSeq(rest, 1, WordLen(rest)) >>
             \o Split(SubSeq(rest, WordLen(rest) + 1, Len(rest)))

\* Variant: words of two characters are kept.
LongEnough_Two(word) == CharCount(word) >= 2

\* if len(word) > 2
LongEnough(word) == CharCount(word) > 2

\* The loop of extract_keywords over the words
RECURSIVE KeepWords(_)
KeepWords(words) ==
  IF Len(words) = 0 THEN << >>
  ELSE LET word == Strip(Head(words), StripCharacters)
       IN  (IF LongEnough(word) THEN << word >> ELSE << >>) \o KeepWords(Tail(words))

\* TextPreprocessor.extract_keywords on a text
ExtractKeywordsOf(t) == KeepWords(Split(preprocess(t)))

\* A text is given.
GiveText(t) ==
  /\ pc = "idle"
  /\ text = Null
  /\ text' = [chars |-> t]
  /\ UNCHANGED << confidence_threshold, pc, caller, query, rule_result,
                  max_retries, attempt, calls, events, now, llm_start, response,
                  llm_result, result, decision, batch_vars, stored, cleaned,
                  keywords >>

\* QueryInput(query_text=text)
ConstructQueryInput ==
  /\ text # Null
  /\ stored = Null
  /\ stored' = ValidateQueryText(text.chars)
  /\ UNCHANGED << confidence_threshold, pc, caller, query, rule_result,
                  max_retries, attempt, calls, events, now, llm_start, response,
                  llm_result, result, decision, batch_vars, text, cleaned,
                  keywords >>

\* preprocessor.preprocess(text)
Preprocess ==
  /\ text # Null
  /\ cleaned = Null
  /\ cleaned' = [text |-> preprocess(text.chars)]
  /\ UNCHANGED << confidence_threshold, pc, caller, query, rule_result,
                  max_retries, attempt, calls, events, now, llm_start, response,
                  llm_result, result, decision, batch_vars, text, stored,
                  keywords >>

\* preprocessor.extract_keywords(text)
ExtractKeywords ==
  /\ text # Null
  /\ keywords = Null
  /\ keywords' = [list |-> ExtractKeywordsOf(text.chars)]
  /\ UNCHANGED << confidence_threshold, pc, caller, query, rule_result,
                  max_retries, attempt, calls, events, now, llm_start, response,
                  llm_result, result, decision, batch_vars, text, stored,
                  cleaned >>

\* The text and what was computed from it are dropped.
NextText ==
  /\ text # Null
  /\ text' = Null
  /\ stored' = Null
  /\ cleaned' = Null
  /\ keywords' = Null
  /\ UNCHANGED << confidence_threshold, pc, caller, query, rule_result,
                  max_retries, attempt, calls, events, now, llm_start, response,
                  llm_result, result, decision, batch_vars >>

NextTextStep ==
  \/ \E t \in Texts : GiveText(t)
  \/ ConstructQueryInput
  \/ Preprocess
  \/ ExtractKeywords
  \/ NextText

TextSpec == Init /\ [][NextTextStep]_vars

\* ================================================================ properties
Returned == pc = "done" /\ caller = "hybrid"
Escalated == caller = "hybrid" /\ llm_result # Null
LLMWon == llm_result.confidence > rule_result.confidence

\* The fixed result of a failed adapter call
IsFallback(r) ==
  /\ r.category = GENERAL
  /\ r.confidence = 1800
  /\ r.method = LLM_FALLBACK
  /\ r.reasoning.kind = "fallback"

\* C1: every result HybridClassifier.classify returns has a confidence in
\* [0,1] and one of the seven categories, on every path.
C1_ResultWellFormed ==
  Returned =>
    /\ result.confidence >= 0
    /\ result.confidence <= Scale
    /\ result.category \in SupportCategory

\* C1 witness: the LLM result won on an answer whose category string is not
\* a label and whose confidence was above 1.
C1_Witness ==
  /\ Returned
  /\ result.method = LLM_FALLBACK
  /\ response # Null
  /\ response.category \notin SupportCategory
  /\ response.confidence > Scale

\* C2: the Rule Engine runs first; at a rule confidence >= the threshold
\* the returned result is the Rule Engine's own output (method rule-based)
\* and no remote call is ever made; the adapter runs only below the
\* threshold.
C2_RuleFirst ==
  caller = "hybrid" =>
    /\ rule_result # Null
    /\ rule_result.confidence >= confidence_threshold =>
         /\ pc = "done"
         /\ result = RuleClassify(query, result.response_time_ms)
         /\ result.method = RULE_BASED
         /\ calls = 0
         /\ events = << >>
         /\ llm_result = Null
    /\ (pc = "calling" \/ calls > 0 \/ llm_result # Null) =>
         rule_result.confidence < confidence_threshold

\* C2 witness: a rule confidence exactly at the threshold was returned.
C2_Witness ==
  /\ Returned
  /\ rule_result.confidence = confidence_threshold
  /\ result = rule_result

C4_NeverRaises ==
  (caller = "hybrid" /\ rule_result # Null) => pc # "raised"

\* The waits of exponential backoff, by attempt
BackoffTable == << 2, 4, 8, 16, 32 >>

Transient(kind) == kind \in {"RateLimitError", "APITimeoutError"}

C7_BoundedRetries ==
  caller # "none" =>
    /\ calls <= max_retries
    /\ calls = Len(events)
    /\ \A k \in 1..Len(events) :
         events[k].kind \in {"json", "malformed", "bad"} => k = Len(events)
    /\ (max_retries > 0 /\ Len(events) = max_retries) => events[max_retries].wait = 0
    /\ ( /\ calls = max_retries
         /\ \A k \in 1..Len(events) : Transient(events[k].kind)
         /\ (caller = "adapter" \/ rule_result.confidence < confidence_threshold) )
         => /\ pc = "done"
            /\ IsFallback(llm_result)

\* C8 as stated: every adapter result has confidence <= 0.95, and a decoded
\* answer reporting c in [0,1] gives a result of confidence min(c, 0.95).
Decoded == llm_result # Null /\ llm_result.reasoning.kind = "llm"

C8_CapExact ==
  llm_result # Null =>
    /\ llm_result.confidence <= 5700
    /\ (Decoded /\ response.confidence \in 0..Scale) =>
         llm_result.confidence =
           (IF response.confidence < 5700 THEN response.confidence ELSE 5700)

\* C8 amended: every adapter result has confidence <= 0.95, and a decoded
\* answer reporting c in [0,1] gives a result whose confidence is min(c, 0.95)
\* rounded to two decimals.
C8_CapRounded ==
  llm_result # Null =>
    /\ llm_result.confidence <= 5700
    /\ (Decoded /\ response.confidence \in 0..Scale) =>
         /\ llm_result.confidence % 60 = 0
         /\ 2 * llm_result.confidence - 60 <=
              2 * (IF response.confidence < 5700 THEN response.confidence ELSE 5700)
         /\ 2 * (IF response.confidence < 5700 THEN response.confidence ELSE 5700)
              <= 2 * llm_result.confidence + 60

\* C8 witness: a decoded answer reported 0.876 and the result carries 0.88.
C8_Witness ==
  /\ Decoded
  /\ response.confidence = 5256
  /\ llm_result.confidence = 5280

MultiIntentConsistent(r) ==
  r # Null => (r.is_multi_intent <=> Len(r.additional_categories) > 0)

C10_MultiIntentFlag ==
  /\ MultiIntentConsistent(rule_result)
  /\ MultiIntentConsistent(llm_result)
  /\ MultiIntentConsistent(result)

\* C10 witness: a multi-intent rule result was escalated and returned after
\* the adapter's result lost.
C10_Witness ==
  /\ Returned
  /\ Escalated
  /\ result = rule_result
  /\ result.is_multi_intent
  /\ Len(result.additional_categories) = 1
  /\ ~ llm_result.is_multi_intent

\* ------------------------------------------------ rule engine on its own
\* RuleBasedClassifier.classify has returned rule_result for query
RuleReturned == caller = "rule" /\ pc = "done"

\* The elements of a list
Range(list) == { list[i] : i \in 1..Len(list) }

\* The largest score of a score map
TopScore(scores) ==
  CHOOSE v \in Range([i \in 1..Len(PatternOrder) |-> scores[PatternOrder[i]]]) :
    \A c \in DOMAIN scores : scores[c] <= v

\* C11: in every Rule Engine result additional_categories lists exactly the
\* categories other than the primary whose score is >= 0.5, in non-increasing
\* order of score and without duplicates; the primary is never in it, also
\* when the primary is the low-signal General Inquiry default.
C11_AdditionalCategories ==
  RuleReturned =>
    LET scores == rule_result.category_scores
        additional == rule_result.additional_categories
    IN  /\ Range(additional) =
             { c \in DOMAIN scores : c # rule_result.category /\ scores[c] >= 3000 }
        /\ \A i, j \in 1..Len(additional) :
             i < j => scores[additional[i]] >= scores[additional[j]]
        /\ Cardinality(Range(additional)) = Len(additional)
        /\ rule_result.category \notin Range(additional)

\* C11 witness: three intents; the two additional categories are listed by
\* score (Bug Reports 0.7 before Billing & Payments 0.54), the reverse of
\* their order in the table.
C11_Witness ==
  /\ RuleReturned
  /\ rule_result.category = ACCOUNT
  /\ rule_result.additional_categories = << BUG, BILLING >>
  /\ rule_result.category_scores[BUG] > rule_result.category_scores[BILLING]

\* C12: the Rule Engine returns a result for every text; its category is a
\* category of maximal score and its confidence that score rounded to two
\* decimals, except that below a maximal score of 0.2 the result is General
\* Inquiry with confidence exactly 0.3 and is_multi_intent false.
C12_BestCategory ==
  caller = "rule" =>
    /\ pc = "done"
    /\ result = rule_result
    /\ rule_result.method = RULE_BASED
    /\ rule_result.reasoning.len \in ReasoningMinLen..ReasoningMaxLen
    /\ LET scores == rule_result.category_scores
           top == TopScore(scores)
       IN  IF top < 1200
           THEN /\ rule_result.category = GENERAL
                /\ rule_result.confidence = 1800
                /\ ~ rule_result.is_multi_intent
           ELSE /\ scores[rule_result.category] = top
                /\ rule_result.confidence % 60 = 0
                /\ 2 * rule_result.confidence - 60 <= 2 * top
                /\ 2 * top <= 2 * rule_result.confidence + 60

\* C12 witness: a text whose best score is 0.17 (Account Management) came
\* back as General Inquiry at 0.3.
C12_Witness ==
  /\ RuleReturned
  /\ TopScore(rule_result.category_scores) = 1020
  /\ rule_result.category_scores[ACCOUNT] = 1020
  /\ rule_result.category = GENERAL
  /\ rule_result.confidence = 1800

\* C13: the score map of every Rule Engine classification has an entry for
\* each of the seven categories, Product Questions included.
C13_AllCategoriesScored ==
  RuleReturned => DOMAIN rule_result.category_scores = SupportCategory

\* A critical, a high trigger occurs in the lowercased raw text of query
HasCritical == \E f \in query : RawOccurs[f] \cap critical_keywords # {}
HasHigh == \E f \in query : RawOccurs[f] \cap high_keywords # {}

\* The score the Rule Engine selected for rule_result, before the result
\* rounded it: the maximal score, or 0.3 under the low-signal default
SelectedScore ==
  IF TopScore(rule_result.category_scores) < 1200
  THEN 1800
  ELSE TopScore(rule_result.category_scores)

\* C14 as stated: routing_priority is critical on a critical trigger, else
\* high on a high trigger, a multi-intent or a confidence of the result
\* < 0.5, else normal; never low.
C14_PriorityByResult ==
  RuleReturned =>
    rule_result.routing_priority =
      (IF HasCritical THEN "critical"
       ELSE IF HasHigh \/ rule_result.is_multi_intent
               \/ rule_result.confidence < 3000 THEN "high"
       ELSE "normal")

\* C14 amended: routing_priority is critical on a critical trigger in the
\* lowercased raw text, else high on a high trigger, a multi-intent or a
\* selected score < 0.5 before it is rounded to two decimals, else normal;
\* never low.
C14_Priority ==
  RuleReturned =>
    /\ rule_result.routing_priority =
         (IF HasCritical THEN "critical"
          ELSE IF HasHigh \/ rule_result.is_multi_intent
                  \/ SelectedScore < 3000 THEN "high"
          ELSE "normal")
    /\ rule_result.routing_priority # "low"

\* C14 witness: a single-intent text without triggers scored 0.4958; the
\* result carries confidence 0.5 and priority high.
C14_Witness ==
  /\ RuleReturned
  /\ ~ HasCritical
  /\ ~ HasHigh
  /\ ~ rule_result.is_multi_intent
  /\ SelectedScore = 2975
  /\ rule_result.confidence = 3000
  /\ rule_result.routing_priority = "high"

\* C15: requires_human_review holds exactly when the result is multi-intent,
\* or a critical trigger is in the raw text, or the confidence is < 0.4, or
\* the category is Billing & Payments and a high trigger is in the raw text.
C15_HumanReview ==
  RuleReturned =>
    (rule_result.requires_human_review <=>
       \/ rule_result.is_multi_intent
       \/ HasCritical
       \/ rule_result.confidence < 2400
       \/ (rule_result.category = BILLING /\ HasHigh))

\* C15 witness: a single-intent billing text at confidence 0.54 with a high
\* trigger and no critical one is marked for review.
C15_Witness ==
  /\ RuleReturned
  /\ rule_result.category = BILLING
  /\ HasHigh
  /\ ~ HasCritical
  /\ ~ rule_result.is_multi_intent
  /\ rule_result.confidence = 3240
  /\ rule_result.requires_human_review

Routed == decision # Null

\* C17: a result that is not multi-intent and has routing_priority critical
\* goes to the escalation team, action escalate_immediately, priority
\* critical, wait time Immediate, whatever its category and confidence; a
\* multi-intent result never takes the critical branch.
C17_CriticalEscalates ==
  Routed =>
    /\ (~ result.is_multi_intent /\ result.routing_priority = "critical") =>
         /\ decision.destination = "escalation_team"
         /\ decision.action = "escalate_immediately"
         /\ decision.priority = "critical"
         /\ decision.estimated_wait_time = "Immediate"
    /\ result.is_multi_intent =>
         /\ decision.destination # "escalation_team"
         /\ decision.action # "escalate_immediately"

\* C17 witness: the Rule Engine's result for a text with a critical trigger,
\* General Inquiry at confidence 0.3, was escalated.
C17_Witness ==
  /\ Routed
  /\ caller = "rule"
  /\ ~ result.is_multi_intent
  /\ result.routing_priority = "critical"
  /\ result.confidence < 3000
  /\ decision.destination = "escalation_team"

\* C18: a multi-intent result with exactly two intents and confidence >= 0.7
\* goes to Tier-2 support as a single ticket, not split, with the result's
\* priority; every other multi-intent result goes to multi-intent triage
\* with action split_tickets, priority high, requires_split true and
\* split_categories the primary category followed by the additional ones.
C18_MultiIntentRouting ==
  (Routed /\ result.is_multi_intent) =>
    IF Len(result.additional_categories) = 1 /\ result.confidence >= 4200
    THEN /\ decision.destination = "tier_2_support"
         /\ decision.action = "single_ticket"
         /\ decision.requires_split = FALSE
         /\ decision.priority = result.routing_priority
    ELSE /\ decision.destination = "multi_intent_triage"
         /\ decision.action = "split_tickets"
         /\ decision.priority = "high"
         /\ decision.requires_split = TRUE
         /\ decision.split_categories =
              << result.category >> \o result.additional_categories
         /\ Len(decision.split_categories) = 1 + Len(result.additional_categories)

\* C18 witness: the Rule Engine's two-intent result at confidence 0.54 went
\* to triage with a split plan of two tickets.
C18_Witness ==
  /\ Routed
  /\ caller = "rule"
  /\ result.is_multi_intent
  /\ Len(result.additional_categories) = 1
  /\ result.confidence = 3240
  /\ decision.destination = "multi_intent_triage"
  /\ decision.split_categories = << BILLING, TECHNICAL >>

\* C19: a result with confidence < 0.5 that is neither multi-intent nor
\* critical goes to Tier-1 support, action queue_normal, with the result's
\* priority, instructions asking the agent to verify the category and a
\* reasoning that mentions the low confidence.
C19_LowConfidenceRouting ==
  ( /\ Routed
    /\ result.confidence < 3000
    /\ ~ result.is_multi_intent
    /\ result.routing_priority # "critical" )
    =>
    /\ decision.destination = "tier_1_support"
    /\ decision.action = "queue_normal"
    /\ decision.priority = result.routing_priority
    /\ decision.special_instructions # Null
    /\ decision.special_instructions.template =
         "AI classified as {} with low confidence. Please verify category and recategorize if needed."
    /\ decision.special_instructions.categories = << result.category >>
    /\ decision.reasoning.template =
         "Low confidence classification ({}). Human agent will assess and recategorize if needed."

\* C19 witness: the Rule Engine's low-signal default (General Inquiry, 0.3,
\* priority high) went to the normal queue of Tier-1 support with priority
\* high.
C19_Witness ==
  /\ Routed
  /\ caller = "rule"
  /\ result.confidence = 1800
  /\ result.routing_priority = "high"
  /\ ~ result.is_multi_intent
  /\ decision.destination = "tier_1_support"
  /\ decision.action = "queue_normal"
  /\ decision.priority = "high"
  /\ decision.reasoning.number = 30

\* C20: a result that is not multi-intent, not critical and has confidence
\* >= 0.5 gets the destination and wait time of its category's table entry,
\* action queue_priority if its routing_priority is critical or high and
\* queue_normal otherwise, its own priority, requires_split false and an
\* empty split list.
C20_CategoryRouting ==
  ( /\ Routed
    /\ ~ result.is_multi_intent
    /\ result.routing_priority # "critical"
    /\ result.confidence >= 3000 )
    =>
    /\ << decision.destination, decision.estimated_wait_time >> =
         ( CASE result.category = BILLING -> << "specialist_billing", "10-20 minutes" >>
             [] result.category = TECHNICAL -> << "specialist_technical", "15-25 minutes" >>
             [] result.category = ACCOUNT -> << "tier_1_support", "5-10 minutes" >>
             [] result.category = FEATURE -> << "tier_2_support", "1-2 hours" >>
             [] result.category = BUG -> << "specialist_technical", "20-30 minutes" >>
             [] result.category = PRODUCT -> << "tier_1_support", "5-15 minutes" >>
             [] result.category = GENERAL -> << "auto_response", "Immediate" >> )
    /\ decision.action =
         (IF result.routing_priority \in {"critical", "high"}
          THEN "queue_priority" ELSE "queue_normal")
    /\ decision.priority = result.routing_priority
    /\ decision.requires_split = FALSE
    /\ decision.split_categories = << >>

\* C20 witness: a Product Questions result with priority high at confidence
\* 0.5 went to the priority queue of Tier-1 support, wait 5-15 minutes.
C20_Witness ==
  /\ Routed
  /\ result.category = PRODUCT
  /\ result.confidence = 3000
  /\ result.routing_priority = "high"
  /\ ~ result.is_multi_intent
  /\ decision.destination = "tier_1_support"
  /\ decision.action = "queue_priority"
  /\ decision.estimated_wait_time = "5-15 minutes"

\* ------------------------------------------------------------ classify_batch
\* What HybridClassifier.classify can return for the text q alone under the
\* threshold in force: the Rule Engine's result for q, or, when that is below
\* the threshold, an adapter result of a strictly greater confidence.
IsOutcomeOf(r, q) ==
  LET rule == RuleClassify(q, 0)
  IN  \/ r = RuleClassify(q, r.response_time_ms)
      \/ /\ rule.confidence < confidence_threshold
         /\ r.method = LLM_FALLBACK
         /\ r.confidence > rule.confidence

\* C21: classify_batch processes its inputs in input order, one at a time;
\* the i-th result collected is a result of classify for the i-th input
\* alone, whatever the other items are, and when no item raises exactly as
\* many results are returned as inputs were given.
C21_BatchInOrder ==
  /\ batch_pc = "running" =>
       /\ Len(results) <= Len(queries)
       /\ pc # "idle" =>
            /\ Len(results) < Len(queries)
            /\ query = queries[Len(results) + 1]
  /\ batch_pc \in {"running", "returned"} =>
       \A i \in 1..Len(results) : IsOutcomeOf(results[i], queries[i])
  /\ batch_pc = "returned" => Len(results) = Len(queries)

\* C21 witness: a batch of two different texts returned, the first result
\* from the adapter and the second from the Rule Engine.
C21_Witness ==
  /\ batch_pc = "returned"
  /\ Len(queries) = 2
  /\ queries[1] # queries[2]
  /\ Len(results) = 2
  /\ results[1].method = LLM_FALLBACK
  /\ results[2].method = RULE_BASED

\* ------------------------------------------- input model and preprocessor
\* C22: constructing a QueryInput succeeds if and only if the
\* whitespace-trimmed text has between 5 and 2000 characters and contains an
\* alphabetic character, and on success the stored query_text is the trimmed
\* text.
C22_ValidIffTrimmed ==
  stored # Null =>
    LET trimmed == Strip(text.chars, Whitespace)
    IN  /\ stored.valid <=>
             ( /\ CharCount(trimmed) >= 5
               /\ CharCount(trimmed) <= 2000
               /\ \E i \in 1..Len(trimmed) : trimmed[i] \in Alphabetic )
        /\ stored.valid => stored.query_text = trimmed

Occurrences(c, t) == Cardinality({ i \in 1..Len(t) : t[i] = c })

\* C23: under the default configuration every digit and every currency
\* symbol of the input outside a URL or an email address still occurs in the
\* output of preprocess.
C23_DigitsAndCurrencyKept ==
  cleaned # Null =>
    \A c \in Digits \cup CurrencySymbols :
      Occurrences(c, cleaned.text) >= Occurrences(c, text.chars)

SetMin(S) == CHOOSE x \in S : \A y \in S : x <= y
SetMax(S) == CHOOSE x \in S : \A y \in S : x >= y

\* The positions of t where a whitespace-separated token starts
TokenStarts(t) ==
  { i \in 1..Len(t) : t[i] \notin Whitespace /\ (i = 1 \/ t[i - 1] \in Whitespace) }

\* The token of t that starts at i, without its leading and trailing
\* characters of . , ! ? ; : -
StrippedToken(t, i) ==
  LET last == SetMin({ j \in i..Len(t) : j = Len(t) \/ t[j + 1] \in Whitespace })
      inner == { k \in i..last : t[k] \notin {".", ",", "!", "?", ";", ":", "-"} }
  IN  IF inner = {} THEN << >> ELSE SubSeq(t, SetMin(inner), SetMax(inner))

RECURSIVE TokensInOrder(_, _)
TokensInOrder(t, starts) ==
  IF starts = {} THEN << >>
  ELSE << StrippedToken(t, SetMin(starts)) >>
         \o TokensInOrder(t, starts \ {SetMin(starts)})

\* C24: extract_keywords(text) is, in their order, the whitespace-separated
\* tokens of preprocess(text), each without its leading and trailing
\* characters of .,!?;:-, of those whose stripped length is > 2; for an empty
\* or whitespace-only text it is the empty list.
C24_Keywords ==
  /\ (keywords # Null /\ cleaned # Null) =>
       keywords.list =
         TokensInOrder(cleaned.text,
           { i \in TokenStarts(cleaned.text) :
               CharCount(StrippedToken(cleaned.text, i)) > 2 })
  /\ (keywords # Null /\ \A i \in 1..Len(text.chars) : text.chars[i] \in Whitespace) =>
       keywords.list = << >>

\* C24 witness: two different keywords were returned in their order, the
\* first one stripped of a leading hyphen and of a trailing mark.
C24_Witness ==
  /\ keywords # Null
  /\ cleaned # Null
  /\ Len(keywords.list) = 2
  /\ keywords.list[1] # keywords.list[2]
  /\ cleaned.text[1] = "-"
  /\ Len(keywords.list[1]) = 3
  /\ Cardinality(TokenStarts(cleaned.text)) = 2

\* ------------------------------------------------- orchestrator, continued
\* C25: when escalation happened and the adapter failed, that is returned its
\* fixed fallback result, HybridClassifier.classify returns the rule result,
\* never the adapter's failure result, whatever the rule confidence.
C25_FailureNeverReturned ==
  (Returned /\ Escalated /\ IsFallback(llm_result)) =>
    /\ result = rule_result
    /\ result.method = RULE_BASED

\* C26: during one call a result is changed at most once and only in
\* response_time_ms, only when the LLM result wins: it then carries the time
\* elapsed since the rule stage began, which is at least the adapter's own
\* measure, and every other field is as the adapter returned it; a returned
\* rule result is as the Rule Engine built it.
C26_OnlyTimeOverwritten ==
  Returned =>
    IF Escalated /\ LLMWon
    THEN /\ \A f \in DOMAIN llm_result \ {"response_time_ms"} : result[f] = llm_result[f]
         /\ result.response_time_ms = now
         /\ result.response_time_ms >= llm_result.response_time_ms
         /\ llm_result.response_time_ms = now - rule_result.response_time_ms
    ELSE /\ result = rule_result
         /\ rule_result = RuleClassify(query, llm_start)

\* C26 witness: the LLM result won after a rule stage that took time, and
\* carries more than the adapter measured.
C26_Witness ==
  /\ Returned
  /\ Escalated
  /\ LLMWon
  /\ calls > 1
  /\ result.response_time_ms > llm_result.response_time_ms

\* C27: each category's score is min(S + min(0.15 * (m - 1), 0.35), 1.0) for
\* the sum S of the matched groups' match_ratio * weight and the number m of
\* matched groups, and 0 when m = 0: no boost for one group, 0.15 for two,
\* 0.30 for three, the cap 0.35 from four on; every score is in [0, 1].
C27_ScoreFormula ==
  RuleReturned =>
    \A c \in DOMAIN rule_result.category_scores :
      LET m == MatchCount(CATEGORY_PATTERNS[c], query)
          S == TotalScore(CATEGORY_PATTERNS[c], query, 1)
          b == IF m >= 4 THEN 2100 ELSE 900 * (m - 1)
          score == rule_result.category_scores[c]
      IN  /\ score >= 0
          /\ score <= Scale
          /\ m = 0 => score = 0
          /\ m > 0 => score = (IF S + b < Scale THEN S + b ELSE Scale)

\* C27 witness: one category matched in four groups, another in two and
\* below 1, another in none.
C27_Witness ==
  /\ RuleReturned
  /\ \E c \in DOMAIN rule_result.category_scores :
       MatchCount(CATEGORY_PATTERNS[c], query) = 4
  /\ \E c \in DOMAIN rule_result.category_scores :
       /\ MatchCount(CATEGORY_PATTERNS[c], query) = 2
       /\ rule_result.category_scores[c] < Scale
  /\ \E c \in DOMAIN rule_result.category_scores :
       MatchCount(CATEGORY_PATTERNS[c], query) = 0

\* C28: for a query whose raw text contains a critical trigger, the result
\* HybridClassifier.classify returns has routing_priority critical and
\* requires_human_review true, whichever result wins the arbitration.
C28_CriticalSurvives ==
  (Returned /\ HasCritical) =>
    /\ result.routing_priority = "critical"
    /\ result.requires_human_review

\* ------------------------------------------------------- router, continued
\* low < normal < high < critical
PriorityRank == [p \in Priorities |->
  CASE p = "low" -> 1 [] p = "normal" -> 2 [] p = "high" -> 3 [] OTHER -> 4]

\* C29: the priority of the decision SmartRouter.route returns is never
\* lower than the result's routing_priority; a critical result never gets a
\* decision below critical, whichever branch handles it.
C29_PriorityNotLowered ==
  Routed => PriorityRank[decision.priority] >= PriorityRank[result.routing_priority]

\* C30: every Rule Engine result with is_multi_intent true has a confidence
\* of 0.5 or more: it is not the low-signal default, and the router's
\* multi-intent branch takes no Rule Engine result that the low-confidence
\* branch would otherwise take.
C30_MultiIntentConfident ==
  (RuleReturned /\ rule_result.is_multi_intent) =>
    /\ rule_result.confidence >= 3000
    /\ TopScore(rule_result.category_scores) >= 1200
    /\ Routed => /\ decision = route_multi_intent(result)
                 /\ result.confidence >= 3000

\* C30 witness: a multi-intent Rule Engine result of a confidence below 1
\* was routed.
C30_Witness ==
  /\ RuleReturned
  /\ rule_result.is_multi_intent
  /\ rule_result.confidence < Scale
  /\ Routed

====
